---- MODULE Spec2Model ----
(***************************************************************************)
(* Model of src/src/backtester.py: the Backtest class (carry-divergence    *)
(* FX backtester).  Tables are pandas DataFrames, modelled as functions    *)
(* Time -> column -> value.  A float cell is an extended rational <<n, d>>:*)
(* d > 0 is the fraction n/d in lowest terms, <<0,0>> is NaN, <<1,0>> is   *)
(* +inf and <<-1,0>> is -inf.  Arithmetic follows IEEE-754 for NaN and the *)
(* infinities and is exact on finite values (no rounding is modelled).     *)
(***************************************************************************)
EXTENDS Integers, Sequences, FiniteSets, TLC

\* ---------------------------------------------------------------- bounds
\* rows of the shared time axis
MaxT == 3
\* largest swap quote of the input tables
MaxSwap == 2
\* method calls made on one Backtest instance
MaxCalls == 3
\* ma_window ranges over 1 .. MaxWindow
MaxWindow == 2

\* ------------------------------------------------------ program constants
\* target_gross_exposure: float = 1_000_000
DefaultGross == 1000000
\* pnl["total"] / 1_000_000
PctNotional == 1000000

\* ------------------------------------------------------------- float cells
NaN == <<0, 0>>
Inf == <<1, 0>>
NegInf == <<-1, 0>>
R(n) == <<n, 1>>
Zero == R(0)
One == R(1)

AbsInt(n) == IF n < 0 THEN -n ELSE n
SgnInt(n) == IF n < 0 THEN -1 ELSE IF n > 0 THEN 1 ELSE 0

RECURSIVE GCD(_, _)
GCD(a, b) == IF b = 0 THEN a ELSE GCD(b, a % b)

Norm(n, d) ==
    IF d = 0 THEN <<SgnInt(n), 0>>
    ELSE LET g == GCD(AbsInt(n), AbsInt(d))
             s == SgnInt(d)
         IN  <<(s * n) \div g, (s * d) \div g>>

IsNaN(x) == x = NaN
IsInf(x) == x[2] = 0 /\ x[1] # 0
Neg(x) == <<-x[1], x[2]>>
AbsX(x) == <<AbsInt(x[1]), x[2]>>

Add(x, y) ==
    IF IsNaN(x) \/ IsNaN(y) THEN NaN
    ELSE IF IsInf(x) /\ IsInf(y) THEN (IF x = y THEN x ELSE NaN)
    ELSE IF IsInf(x) THEN x
    ELSE IF IsInf(y) THEN y
    ELSE Norm(x[1] * y[2] + y[1] * x[2], x[2] * y[2])

Sub(x, y) == Add(x, Neg(y))

Mul(x, y) ==
    IF IsNaN(x) \/ IsNaN(y) THEN NaN
    ELSE Norm(x[1] * y[1], x[2] * y[2])

\* x / y; a zero divisor is +0.0 everywhere in this program (an abs, a sum of
\* abs, a positive price), so x / 0 has the sign of x.
Div(x, y) ==
    IF IsNaN(x) \/ IsNaN(y) THEN NaN
    ELSE LET sy == IF y[1] < 0 THEN -1 ELSE 1
         IN  Norm(x[1] * y[2] * sy, x[2] * AbsInt(y[1]))

\* IEEE comparisons: every comparison with NaN is false.
Lt(x, y) ==
    /\ ~IsNaN(x)
    /\ ~IsNaN(y)
    /\ x # y
    /\ \/ x = NegInf
       \/ y = Inf
       \/ (x[2] # 0 /\ y[2] # 0 /\ x[1] * y[2] < y[1] * x[2])
Gt(x, y) == Lt(y, x)
Ge(x, y) == ~IsNaN(x) /\ ~IsNaN(y) /\ ~Lt(x, y)

RECURSIVE SumSet(_, _)
SumSet(S, f) ==
    IF S = {} THEN Zero
    ELSE LET e == CHOOSE e \in S : TRUE
         IN  Add(f[e], SumSet(S \ {e}, f))

\* ------------------------------------------------------------------ names
Fixes == {"LON", "NY"}
Time == 1 .. MaxT
Universe == {"AUDUSD", "CADUSD", "CHFUSD"}
\* cur[:3]
Prefix3 == [c \in Universe |->
              CASE c = "AUDUSD" -> "AUD" [] c = "CADUSD" -> "CAD" [] c = "CHFUSD" -> "CHF"]
\* country + "USD"
WithUSD == [k \in {"AUD", "CAD", "CHF"} |->
              CASE k = "AUD" -> "AUDUSD" [] k = "CAD" -> "CADUSD" [] k = "CHF" -> "CHFUSD"]

VARIABLES
    fx_lon_fixes, fx_ny_fixes, swaps_lon_fixes, swaps_ny_fixes,
    ma_window, currencies, positions, signals_lon, signals_ny,
    pnl, attrs, target, ncalls, last

inputs == <<fx_lon_fixes, fx_ny_fixes, swaps_lon_fixes, swaps_ny_fixes, ma_window, currencies>>
vars == <<fx_lon_fixes, fx_ny_fixes, swaps_lon_fixes, swaps_ny_fixes,
          ma_window, currencies, positions, signals_lon, signals_ny,
          pnl, attrs, target, ncalls, last>>

\* ------------------------------------------------------------------ inputs
CurrencyLists == {<<"AUDUSD", "CADUSD">>, <<"AUDUSD", "CADUSD", "CHFUSD">>}
ColumnsOf(cs) == {cs[k] : k \in DOMAIN cs}

\* A swap quote: flat at 0, flat at MaxSwap, 0 on the first row and 1 from the
\* second row on, or 1 on the first row and 0 from the second row on.
SwapCurves == {[t \in Time |-> 0], [t \in Time |-> MaxSwap],
               [t \in Time |-> IF t = 1 THEN 0 ELSE 1],
               [t \in Time |-> IF t = 1 THEN 1 ELSE 0]}

TableOf(cs, curve) == [t \in Time |-> [c \in ColumnsOf(cs) |-> R(curve[c][t])]]
SwapTables(cs) == {TableOf(cs, curve) : curve \in [ColumnsOf(cs) -> SwapCurves]}
\* Spot levels: every instrument at 1 on the first row, the k-th column
\* multiplying by k + 1 from each row to the next.
RECURSIVE Pow(_, _)
Pow(b, e) == IF e = 0 THEN 1 ELSE b * Pow(b, e - 1)
FxTable(cs) ==
    [t \in Time |-> [c \in ColumnsOf(cs) |->
        LET k == CHOOSE k \in DOMAIN cs : cs[k] = c
        IN  R(Pow(k + 1, t - 1))]]
\* The NY fixing sees each LON row one row later.
Lagged(tbl) == [t \in Time |-> IF t = 1 THEN tbl[1] ELSE tbl[t - 1]]
ZeroTable(cs) == [t \in Time |-> [c \in ColumnsOf(cs) |-> Zero]]

\* ------------------------------------------------------------ __init__
Columns == ColumnsOf(currencies)
countries == [k \in DOMAIN currencies |-> Prefix3[currencies[k]]]
InitAttrs == {"fx_lon_fixes", "fx_ny_fixes", "swaps_lon_fixes", "swaps_ny_fixes",
              "ma_window", "currencies", "countries", "positions",
              "signals_lon", "signals_ny"}
\* The call that ran last: its name and arguments, the locals of its
\* compute_signals part, its return value and the exception it raised.
NoCall == [op |-> "__init__", fix |-> "", tgt |-> 0, sub |-> <<>>, thr |-> <<>>,
           col |-> <<>>, ret |-> <<>>, raised |-> ""]

\* -------------------------------------------------------- compute_signals
\* combinations(countries, 2), each pair named country1 + country2 and split
\* back by col[:3], col[3:]
Pairs == {<<countries[ij[1]], countries[ij[2]]>> :
            ij \in {ij \in (DOMAIN countries) \X (DOMAIN countries) : ij[1] < ij[2]}}

\* diff = swaps_data[country1_cur] - swaps_data[country2_cur], at row t
PairDiff(swaps, p, t) == Sub(swaps[t][WithUSD[p[1]]], swaps[t][WithUSD[p[2]]])

RECURSIVE WindowSum(_, _, _, _)
WindowSum(swaps, p, from, to) ==
    IF from > to THEN Zero
    ELSE Add(PairDiff(swaps, p, from), WindowSum(swaps, p, from + 1, to))

\* diff.rolling(ma_window).mean(): undefined until ma_window rows are available
RollingMean(swaps, p, w, t) ==
    IF t < w THEN NaN ELSE Div(WindowSum(swaps, p, t - w + 1, t), R(w))

\* subsignals_col = (diff - avg) / np.abs(avg)
Subsignal(swaps, p, w, t) ==
    LET diff == PairDiff(swaps, p, t)
        avg == RollingMean(swaps, p, w, t)
    IN  Div(Sub(diff, avg), AbsX(avg))

Subsignals(swaps, w) == [p \in Pairs |-> [t \in Time |-> Subsignal(swaps, p, w, t)]]

\* The defined values of row t of subsignals.abs(), in some order.
RECURSIVE RowAbs(_, _, _)
RowAbs(P, sub, t) ==
    IF P = {} THEN <<>>
    ELSE LET p == CHOOSE p \in P : TRUE
             rest == RowAbs(P \ {p}, sub, t)
         IN  IF IsNaN(sub[p][t]) THEN rest ELSE <<AbsX(sub[p][t])>> \o rest

Half == <<1, 2>>

\* quantile(q=0.5) of the sorted defined values, linear interpolation
Median(s) ==
    LET k == Len(s)
        lo == ((k - 1) \div 2) + 1
        hi == (k \div 2) + 1
    IN  IF k = 0 THEN NaN
        ELSE IF lo = hi THEN s[lo]
        ELSE Add(s[lo], Mul(Sub(s[hi], s[lo]), Half))

\* Row t of subsignals.abs().quantile(axis=1, q=0.5, numeric_only=True)
RowMedian(sub, t) == Median(SortSeq(RowAbs(DOMAIN sub, sub, t), Lt))

\* The rows of subsignals that hold an infinity (avg = 0 under a nonzero diff).
InfRows(sub) == {t \in Time : \E p \in DOMAIN sub : IsInf(sub[p][t])}

\* subsignals["threshold"].  On a row that holds an infinity the interpolation
\* arithmetic of the installed numpy decides whether the quantile is the
\* extended-real median or NaN: nanrows is the set of rows where it is NaN.
Threshold(sub, nanrows) ==
    [t \in Time |-> IF t \in nanrows THEN NaN ELSE RowMedian(sub, t)]

\* lines 113-115 on one cell, one assignment after the other
Discretize(x, threshold) ==
    LET c1 == IF Gt(AbsX(x), threshold) /\ Ge(x, Zero) THEN One ELSE x
        c2 == IF Gt(AbsX(c1), threshold) /\ Lt(c1, Zero) THEN Neg(One) ELSE c1
    IN  IF AbsX(c2) # One THEN Zero ELSE c2

\* variant: both instruments of the pair receive +v
PairContribution_Same(cur, p, v) ==
    IF Prefix3[cur] = p[1] \/ Prefix3[cur] = p[2] THEN v ELSE Zero

\* signals[country1 + "USD"] += col_data; signals[country2 + "USD"] -= col_data
PairContribution(cur, p, v) ==
    IF cur = WithUSD[p[1]] THEN v
    ELSE IF cur = WithUSD[p[2]] THEN Neg(v)
    ELSE Zero

Accumulate(signals, col) ==
    [t \in Time |-> [c \in Columns |->
        Add(signals[t][c],
            SumSet(DOMAIN col, [p \in DOMAIN col |-> PairContribution(c, p, col[p][t])]))]]

\* variant: signals_ny bound to the same table as signals_lon (no copy)
InPlaceUpdate_Aliased(fix, lon, ny, new) == <<new, new>>

\* signals = self.signals_lon / self.signals_ny: the table the loop mutates.
\* signals_ny was made by signals_lon.copy(), so the other one is untouched.
InPlaceUpdate(fix, lon, ny, new) ==
    IF fix = "LON" THEN <<new, ny>> ELSE <<lon, new>>

SwapsOf(fix) == IF fix = "LON" THEN swaps_lon_fixes ELSE swaps_ny_fixes
SignalsOf(fix) == IF fix = "LON" THEN signals_lon ELSE signals_ny

\* The locals of one compute_signals(fix) call: each element is one outcome
\* <<subsignals, thresholds, discretized columns, the session's new signals>>.
SignalRuns(fix) ==
    LET sub == Subsignals(SwapsOf(fix), ma_window)
    IN  {LET thr == Threshold(sub, nanrows)
             col == [p \in Pairs |-> [t \in Time |-> Discretize(sub[p][t], thr[t])]]
         IN  <<sub, thr, col, Accumulate(SignalsOf(fix), col)>> :
         nanrows \in SUBSET InfRows(sub)}

ComputeSignals(fix) ==
    /\ ncalls < MaxCalls
    /\ \E r \in SignalRuns(fix) :
         LET st == InPlaceUpdate(fix, signals_lon, signals_ny, r[4])
         IN  /\ signals_lon' = st[1]
             /\ signals_ny' = st[2]
             /\ last' = [NoCall EXCEPT !.op = "compute_signals", !.fix = fix,
                                       !.sub = r[1], !.thr = r[2], !.col = r[3]]
    /\ ncalls' = ncalls + 1
    /\ UNCHANGED <<inputs, positions, pnl, attrs, target>>

\* ------------------------------------------------------ compute_positions
Targets == {DefaultGross, 2 * DefaultGross}

\* variant: the row sum taken without abs()
BaseAmt_NoAbs(row, tgt) == Div(R(tgt), SumSet(DOMAIN row, row))

\* base_amt = target_gross_exposure / signal.abs().sum(axis=1), at one row
BaseAmt(row, tgt) == Div(R(tgt), SumSet(DOMAIN row, [c \in DOMAIN row |-> AbsX(row[c])]))

\* nominal_exposures = signal * base_amt.to_numpy().reshape(-1, 1)
NominalExposures(signal, tgt) ==
    [t \in Time |-> [c \in DOMAIN signal[t] |-> Mul(signal[t][c], BaseAmt(signal[t], tgt))]]

ComputePositions(fix, tgt) ==
    /\ ncalls < MaxCalls
    /\ positions' = NominalExposures(SignalsOf(fix), tgt)
    /\ target' = tgt
    /\ last' = [NoCall EXCEPT !.op = "compute_positions", !.fix = fix, !.tgt = tgt]
    /\ ncalls' = ncalls + 1
    /\ UNCHANGED <<inputs, signals_lon, signals_ny, pnl, attrs>>

\* ------------------------------------------------------------ compute_pnl
\* self.fx_lon_fixes.pct_change(), one row
Returns(fx, t) ==
    [c \in DOMAIN fx[t] |->
        IF t = 1 THEN NaN ELSE Sub(Div(fx[t][c], fx[t - 1][c]), One)]

\* variant: the position of the same row, no shift
Shift1_None(tbl, t) == tbl[t]

\* positions.shift(1), one row
Shift1(tbl, t) == IF t = 1 THEN [c \in DOMAIN tbl[t] |-> NaN] ELSE tbl[t - 1]

\* one side of positions.align(returns, join="outer", axis=1)
Reindex(row, cols) == [c \in cols |-> IF c \in DOMAIN row THEN row[c] ELSE NaN]

\* pnl.sum(axis=1): pandas skips undefined cells, an all-undefined row sums to 0
RECURSIVE SumSkipNa(_, _)
SumSkipNa(S, row) ==
    IF S = {} THEN Zero
    ELSE LET c == CHOOSE c \in S : TRUE
         IN  IF IsNaN(row[c]) THEN SumSkipNa(S \ {c}, row)
             ELSE Add(row[c], SumSkipNa(S \ {c}, row))

\* One row of the table compute_pnl stores in self.pnl.
PnlRow(pos, fx, t) ==
    LET cols == DOMAIN pos[t] \cup DOMAIN fx[t]
        ret == Reindex(Returns(fx, t), cols)
        held == Reindex(Shift1(pos, t), cols)
        prod == [c \in cols |-> Mul(ret[c], held[c])]
        total == SumSkipNa(cols, prod)
    IN  [c \in cols \cup {"total", "total_pct"} |->
            IF c = "total" THEN total
            ELSE IF c = "total_pct" THEN Div(total, R(PctNotional))
            ELSE prod[c]]

PnlTable(pos, fx) == [t \in Time |-> PnlRow(pos, fx, t)]

ComputePnl ==
    /\ ncalls < MaxCalls
    /\ pnl' = PnlTable(positions, fx_lon_fixes)
    /\ attrs' = attrs \cup {"pnl"}
    /\ last' = [NoCall EXCEPT !.op = "compute_pnl"]
    /\ ncalls' = ncalls + 1
    /\ UNCHANGED <<inputs, positions, signals_lon, signals_ny, target>>

\* ---------------------------------------------- compute_transaction_costs
\* the module-level spreads table (never stored on the instance)
Spreads == [c \in Universe |->
              CASE c = "AUDUSD" -> Norm(6, 100000)
                [] c = "CADUSD" -> Norm(10, 100000)
                [] c = "CHFUSD" -> Norm(11, 100000)]

\* position_chg = positions.diff().abs(); tc = position_chg * spreads
TransactionCosts(pos, unit_cost) ==
    [t \in Time |-> [c \in DOMAIN pos[t] |->
        IF t = 1 THEN NaN
        ELSE Mul(AbsX(Sub(pos[t][c], pos[t - 1][c])),
                 IF c \in DOMAIN unit_cost THEN unit_cost[c] ELSE NaN)]]

\* self.spreads is read first: __init__ never assigns it, so the lookup raises.
ComputeTransactionCosts ==
    /\ ncalls < MaxCalls
    /\ ncalls' = ncalls + 1
    /\ last' = IF "spreads" \in attrs
               THEN [NoCall EXCEPT !.op = "compute_transaction_costs",
                                   !.ret = TransactionCosts(positions, Spreads)]
               ELSE [NoCall EXCEPT !.op = "compute_transaction_costs",
                                   !.raised = "AttributeError"]
    /\ UNCHANGED <<inputs, positions, signals_lon, signals_ny, pnl, attrs, target>>

\* -------------------------------------------------------------------- run
Run ==
    /\ ncalls < MaxCalls
    /\ \E r \in SignalRuns("LON") :
         LET st == InPlaceUpdate("LON", signals_lon, signals_ny, r[4])
             pos == NominalExposures(st[1], DefaultGross)
         IN  /\ signals_lon' = st[1]
             /\ signals_ny' = st[2]
             /\ positions' = pos
             /\ pnl' = PnlTable(pos, fx_lon_fixes)
             /\ last' = [NoCall EXCEPT !.op = "run", !.fix = "LON", !.tgt = DefaultGross,
                                       !.sub = r[1], !.thr = r[2], !.col = r[3]]
    /\ target' = DefaultGross
    /\ attrs' = attrs \cup {"pnl"}
    /\ ncalls' = ncalls + 1
    /\ UNCHANGED inputs

Init ==
    /\ \E cs \in CurrencyLists :
         /\ currencies = cs
         /\ swaps_lon_fixes \in SwapTables(cs)
         /\ swaps_ny_fixes = Lagged(swaps_lon_fixes)
         /\ fx_lon_fixes = FxTable(cs)
         /\ fx_ny_fixes = Lagged(fx_lon_fixes)
         /\ positions = ZeroTable(cs)
         /\ signals_lon = ZeroTable(cs)
         /\ signals_ny = ZeroTable(cs)
    /\ ma_window \in 1 .. MaxWindow
    /\ pnl = <<>>
    /\ attrs = InitAttrs
    /\ target = 0
    /\ ncalls = 0
    /\ last = NoCall

Next ==
    \/ \E fix \in Fixes : ComputeSignals(fix)
    \/ \E fix \in Fixes, tgt \in Targets : ComputePositions(fix, tgt)
    \/ ComputePnl
    \/ ComputeTransactionCosts
    \/ Run

Spec == Init /\ [][Next]_vars

\* ================================================================ claims
Finite(x) == x[2] # 0
GrossAt(tbl, t) == SumSet(Columns, [c \in Columns |-> AbsX(tbl[t][c])])
PnlFresh == last.op \in {"compute_pnl", "run"}
SignalsRan == last.op \in {"compute_signals", "run"}
PositionsRan == last.op \in {"compute_positions", "run"}

\* C1: right after compute_positions(fix, tgt), at every row where the
\* session's signal table has a nonzero entry, the absolute positions sum to
\* the target gross exposure.
C1_GrossExposure ==
    PositionsRan =>
        \A t \in Time :
            (\E c \in Columns : SignalsOf(last.fix)[t][c] # Zero)
                => GrossAt(positions, t) = R(last.tgt)

\* C1 witness: a nonzero, finite position right after compute_positions with a
\* non-default target.
C1_Witness ==
    /\ last.op = "compute_positions"
    /\ last.tgt # DefaultGross
    /\ \E t \in Time, c \in Columns :
         /\ SignalsOf(last.fix)[t][c] # Zero
         /\ positions[t][c] # Zero
         /\ Finite(positions[t][c])

\* C2: in the table compute_pnl stores, pnl[i][t] = ret[i][t] * position[i][t-1],
\* and replacing row t of the position table by any other row leaves row t of
\* the P&L table (instrument columns, total and total_pct) as it is.
PosVals == {NaN, Zero, R(DefaultGross), R(-DefaultGross)}
AltRows(t) ==
    {[c \in Columns |-> v] : v \in PosVals} \cup
    {[positions[t] EXCEPT ![c] = v] : c \in Columns, v \in PosVals}

C2_PnlLag ==
    PnlFresh =>
        \A t \in Time :
            /\ \A c \in Columns :
                 pnl[t][c] = Mul(Returns(fx_lon_fixes, t)[c],
                                 IF t = 1 THEN NaN ELSE positions[t - 1][c])
            /\ \A row \in AltRows(t) :
                 PnlRow([positions EXCEPT ![t] = row], fx_lon_fixes, t) = pnl[t]

\* C2 witness: a defined nonzero pnl cell whose row t and row t-1 positions differ.
C2_Witness ==
    /\ last.op = "compute_pnl"
    /\ \E t \in Time \ {1}, c \in Columns :
         /\ Finite(pnl[t][c])
         /\ pnl[t][c] # Zero
         /\ positions[t][c] # positions[t - 1][c]
         /\ pnl[t]["total"] # Zero

\* C3: a row whose composite signals are all zero gets undefined positions from
\* compute_positions, and compute_pnl then leaves pnl[i][t+1], total[t+1] and
\* total_pct[t+1] undefined.
C3_ZeroGrossPropagates ==
    /\ PositionsRan =>
         \A t \in Time :
            (\A c \in Columns : SignalsOf(last.fix)[t][c] = Zero)
                => \A c \in Columns : positions[t][c] = NaN
    /\ last.op = "compute_pnl" =>
         \A t \in Time \ {MaxT} :
            (\A c \in Columns : positions[t][c] = NaN)
                => /\ \A c \in Columns : pnl[t + 1][c] = NaN
                   /\ pnl[t + 1]["total"] = NaN
                   /\ pnl[t + 1]["total_pct"] = NaN

\* C4: with exactly two instruments, the first compute_signals on a new
\* Backtest leaves the session's composite signal at 0 everywhere.
C4_TwoInstrumentsZero ==
    (Len(currencies) = 2 /\ last.op = "compute_signals" /\ ncalls = 1)
        => SignalsOf(last.fix) = ZeroTable(currencies)

\* C5: after compute_pnl, total[t] is the sum of the instruments' pnl at t and
\* total_pct[t] is total[t] divided by the target gross exposure that was
\* given to compute_positions.
C5_TotalPct ==
    (PnlFresh /\ target # 0) =>
        \A t \in Time :
            /\ pnl[t]["total"] = SumSkipNa(Columns, pnl[t])
            /\ pnl[t]["total_pct"] = Div(pnl[t]["total"], R(target))

\* C6: compute_transaction_costs after compute_positions raises nothing and
\* returns abs(position[t] - position[t-1]) * unit_cost, undefined on the first
\* row and for an instrument without a cost entry.
C6_TransactionCosts ==
    (last.op = "compute_transaction_costs" /\ target # 0) =>
        /\ last.raised = ""
        /\ last.ret =
             [t \in Time |-> [c \in Columns |->
                IF t = 1 THEN NaN
                ELSE Mul(AbsX(Sub(positions[t][c], positions[t - 1][c])),
                         IF c \in DOMAIN Spreads THEN Spreads[c] ELSE NaN)]]

\* C7: the value a pair adds to the composite signal is +1 exactly when
\* abs(sub) > threshold and sub >= 0, -1 exactly when abs(sub) > threshold and
\* sub < 0, and 0 otherwise.
Discretized(x, threshold) ==
    IF Gt(AbsX(x), threshold) /\ Ge(x, Zero) THEN One
    ELSE IF Gt(AbsX(x), threshold) /\ Lt(x, Zero) THEN Neg(One)
    ELSE Zero

C7_Discretization ==
    SignalsRan =>
        \A p \in Pairs, t \in Time :
            last.col[p][t] = Discretized(last.sub[p][t], last.thr[t])

\* C8: every composite signal is an integer in [-(n-1), n-1], n the number of
\* instruments, whatever calls were made.
C8_SignalRange ==
    \A fix \in Fixes, t \in Time, c \in Columns :
        LET x == SignalsOf(fix)[t][c]
        IN  /\ x[2] = 1
            /\ x[1] >= -(Len(currencies) - 1)
            /\ x[1] <= Len(currencies) - 1

\* C9: what a pair adds to its first instrument is the negation of what it
\* adds to its second, and each session's composite signals sum to 0 over the
\* instruments at every row.
C9_Antisymmetric ==
    /\ \A fix \in Fixes, t \in Time : SumSet(Columns, SignalsOf(fix)[t]) = Zero
    /\ SignalsRan =>
         \A p \in Pairs, t \in Time :
            PairContribution(WithUSD[p[1]], p, last.col[p][t])
                = Neg(PairContribution(WithUSD[p[2]], p, last.col[p][t]))

\* C9 witness: both sessions hold nonzero signals after at least two calls.
C9_Witness ==
    /\ ncalls >= 2
    /\ last.op = "compute_signals"
    /\ \E t \in Time, c \in Columns : signals_lon[t][c] # Zero
    /\ \E t \in Time, c \in Columns : signals_ny[t][c] # Zero

\* C10: compute_signals(session) changes that session's signal table only (not
\* the other session's, not the positions, not the inputs); compute_positions
\* and compute_pnl change no signal table and no input.
C10_Frame ==
    [][/\ last'.op = "compute_signals" =>
            /\ UNCHANGED <<inputs, positions>>
            /\ last'.fix = "LON" => signals_ny' = signals_ny
            /\ last'.fix = "NY" => signals_lon' = signals_lon
       /\ last'.op \in {"compute_positions", "compute_pnl"} =>
            UNCHANGED <<inputs, signals_lon, signals_ny>>]_vars

\* C10 witness: compute_signals(NY) ran on an instance whose LON signals and
\* positions were already computed, and the two signal tables differ.
C10_Witness ==
    /\ last.op = "compute_signals"
    /\ last.fix = "NY"
    /\ signals_ny # ZeroTable(currencies)
    /\ signals_lon # ZeroTable(currencies)
    /\ signals_ny # signals_lon
    /\ positions # ZeroTable(currencies)
====
